---- MODULE Spec2Model ----
(***************************************************************************)
(* talk-codebase: the vector-store lifecycle (BaseLLM._create_vector_store *)
(* and BaseLLM._update_vector_store) and the retrieval-augmented query     *)
(* (send_query) of src/talk_codebase/llm.py and src/talk_codebase/LLM.py.  *)
(*                                                                         *)
(* The two files hold the same class; llm.py adds force_recreate to        *)
(* _create_vector_store (LLM.py is the case force_recreate = FALSE) and    *)
(* LLM.py adds _update_vector_store.                                       *)
(*                                                                         *)
(* The vector index (langchain FAISS), the text splitter, the loader and   *)
(* the language model are collaborators whose code is not in the           *)
(* repository's sources; each call the source makes on them is modelled by *)
(* what the call is documented (or commented in the source) to do.         *)
(***************************************************************************)
EXTENDS Integers, Sequences, FiniteSets, TLC

VARIABLES
    files,         \* the files under the root directory: name -> content (0 = no such file)
    disk,          \* the index directory of each index path: its two files
    vector_store,  \* self.vector_store of the live BaseLLM instance (None: no instance)
    pc,            \* "idle", or "update" while _update_vector_store runs its loop
    upd,           \* the locals of the running _update_vector_store
    returned,      \* the store the last _update_vector_store returned (None: none)
    outcome,       \* how the last operation ended
    embedCalls,    \* calls the running / last operation made to the embedding provider
    loadCalls,     \* calls it made to the loader (load_files / load_file)
    searchCalls,   \* similarity searches it performed
    llmCalls,      \* prompts it dispatched to the language model
    persists,      \* db.save_local calls it made
    retrieved,     \* docs of the last send_query
    promptSent,    \* the context block of the prompt it sent (None: none sent)
    file_paths,    \* the provenance it reported
    last,          \* the running / last operation and its arguments
    ops            \* events so far: operations started and files edited

vars == <<files, disk, vector_store, pc, upd, returned, outcome, embedCalls,
          loadCalls, searchCalls, llmCalls, persists, retrieved, promptSent,
          file_paths, last, ops>>

----------------------------------------------------------------------------
(* Bounds of the model *)

\* file contents are 1..MaxContent; content c is a text of c characters
MaxContent == 2
\* events of one run: operations started and files edited
MaxOps == 3
\* the longest changedFilePaths list
MaxPaths == 2

(* Configuration read by the code *)

\* config "chunk_size"
ChunkSize == 1
\* config "chunk_overlap"
ChunkOverlap == 0

----------------------------------------------------------------------------
(* Values *)

\* Python's None and a present value
None == <<>>
Some(x) == <<x>>
Get(o) == o[1]

\* a path is the sequence of its components
FileNames == <<"a.py", "b.py">>
FileSet == {FileNames[i] : i \in 1..Len(FileNames)}

\* the root directory, and the spellings of it a caller passes
Root == <<"proj">>
RootDirs == { Root, <<".">> \o Root \o <<"">> }

\* MODEL_TYPES["LOCAL"], MODEL_TYPES["OPENAI"]
MODEL_TYPES == [LOCAL |-> "local", OPENAI |-> "openai"]
ModelTypes == {MODEL_TYPES.LOCAL, MODEL_TYPES.OPENAI}

\* the working directory os.path.abspath resolves against
Cwd == <<"/", "home">>

\* os.path.normpath on the spellings above: drops "." and empty components
normpath(p) == SelectSeq(p, LAMBDA c : c # "" /\ c # ".")

\* index_path = os.path.join(root_dir, "vector_store", index)
IndexPath(root_dir, index) == normpath(root_dir) \o <<"vector_store", index>>

IndexPaths == {IndexPath(r, i) : r \in RootDirs, i \in ModelTypes}

\* os.path.abspath
abspath(p) == IF Len(p) > 0 /\ p[1] = "/" THEN normpath(p) ELSE Cwd \o normpath(p)

----------------------------------------------------------------------------
(* Documents and chunks *)

\* the source metadata the loader gives the file `name` under `root`
SourceOf(root, name) == root \o <<name>>

\* the paths a caller of _update_vector_store names
UpdatePaths == {SourceOf(Root, FileNames[i]) : i \in 1..Len(FileNames)}

\* the file a path names
NameOf(path) == path[Len(path)]

\* load_files(root_dir): one document per file found under root_dir, in walk order
RECURSIVE LoadFrom(_, _)
LoadFrom(root, i) ==
    IF i > Len(FileNames) THEN <<>>
    ELSE (IF files[FileNames[i]] = 0 THEN <<>>
          ELSE <<[source |-> SourceOf(root, FileNames[i]), content |-> files[FileNames[i]]]>>)
         \o LoadFrom(root, i + 1)

load_files(root_dir) == LoadFrom(root_dir, 1)

\* load_file(path): the one document of the file, or none when it cannot be loaded
load_file(path) ==
    IF files[NameOf(path)] = 0 THEN <<>>
    ELSE <<[source |-> path, content |-> files[NameOf(path)]]>>

\* chunks RecursiveCharacterTextSplitter cuts a text of `len` characters into:
\* windows of chunk_size characters, each starting chunk_size - chunk_overlap
\* after the one before
NumChunks(len) ==
    IF len <= ChunkSize THEN 1
    ELSE 1 + ((len - ChunkSize) + (ChunkSize - ChunkOverlap) - 1) \div (ChunkSize - ChunkOverlap)

\* the chunks of one document: each keeps the document's source metadata
ChunksOf(doc) ==
    [i \in 1..NumChunks(doc.content) |->
        [source |-> doc.source, page_content |-> <<doc.content, i>>]]

\* text_splitter.split_documents(docs)
RECURSIVE split_documents(_)
split_documents(docs) ==
    IF docs = <<>> THEN <<>>
    ELSE ChunksOf(Head(docs)) \o split_documents(Tail(docs))

----------------------------------------------------------------------------
(* The FAISS store: the vector index and the docstore, entry i of the index *)
(* being the vector of entry i of the docstore. A vector is written as the  *)
(* chunk it embeds.                                                         *)

\* FAISS.from_documents(texts, embeddings): embeds texts (one provider call)
from_documents(texts) == [index |-> texts, docstore |-> texts]

\* db.add_documents(texts): embeds texts (one provider call) and appends them
add_documents(db, texts) ==
    [index |-> db.index \o texts, docstore |-> db.docstore \o texts]

\* the entries of seq at the positions whose document is not from `path`
RECURSIVE DropWhere(_, _, _, _)
DropWhere(seq, docstore, path, i) ==
    IF i > Len(seq) THEN <<>>
    ELSE (IF i <= Len(docstore) /\ docstore[i].source = path THEN <<>> ELSE <<seq[i]>>)
         \o DropWhere(seq, docstore, path, i + 1)

\* db.remove_documents_where(lambda doc: doc.metadata["source"] == path)
remove_documents_where(db, path) ==
    [index    |-> DropWhere(db.index, db.docstore, path, 1),
     docstore |-> DropWhere(db.docstore, db.docstore, path, 1)]

\* an index directory: index.faiss and index.pkl, each None when not there
NoDir == [faiss |-> None, pkl |-> None]

\* the directory a complete save of db leaves
DirOf(db) == [faiss |-> Some(db.index), pkl |-> Some(db.docstore)]

\* how a db.save_local call can end: both files written; failed before
\* index.faiss was replaced; failed after index.faiss was written and before
\* index.pkl was
SaveEnds == {"ok", "fail_faiss", "fail_pkl"}

\* db.save_local(index_path): writes index.faiss, then index.pkl, in place
save_local(db, dir, how) ==
    CASE how = "ok"         -> DirOf(db)
      [] how = "fail_faiss" -> dir
      [] how = "fail_pkl"   -> [faiss |-> Some(db.index), pkl |-> dir.pkl]

\* FAISS.load_local(index_path): the store of the two files, None without them
load_local(dir) ==
    IF dir.faiss = None \/ dir.pkl = None THEN None
    ELSE Some([index |-> Get(dir.faiss), docstore |-> Get(dir.pkl)])

\* get_local_vector_store(embeddings, index_path): the persisted store or None
get_local_vector_store(dir) == load_local(dir)

----------------------------------------------------------------------------
(* BaseLLM._create_vector_store *)

\* lines 62-63: db = FAISS.from_documents(texts, embeddings); db.add_documents(texts)
\* (each of the two calls submits texts to the embedding provider)
BuildStore(texts) ==
    [db |-> add_documents(from_documents(texts), texts), embeds |-> 2]

\* _create_vector_store without the exit on an empty corpus: it goes on to
\* embed and save the empty list of chunks
create_vector_store_no_exit(root_dir, index, force_recreate, how) ==
    LET index_path == IndexPath(root_dir, index)
        new_db     == IF force_recreate THEN None
                      ELSE get_local_vector_store(disk[index_path])
        texts      == split_documents(load_files(normpath(root_dir)))
        built      == BuildStore(texts)
    IN  IF ~force_recreate /\ new_db # None
        THEN [outcome |-> "loaded", store |-> new_db, dir |-> disk[index_path],
              embeds |-> 0, loads |-> 0, saves |-> 0]
        ELSE [outcome |-> IF how = "ok" THEN "created" ELSE "PersistError",
              store   |-> IF how = "ok" THEN Some(built.db) ELSE None,
              dir     |-> save_local(built.db, disk[index_path], how),
              embeds  |-> built.embeds, loads |-> 1, saves |-> 1]

\* _create_vector_store(embeddings, index, root_dir, force_recreate), its
\* db.save_local ending as `how`: what it returns and what it leaves behind.
\* exit(0) ends the process, so no instance is left ("NoDocuments"); so does
\* the exception of a failed save ("PersistError"). The cost estimate of the
\* openai index is written to stderr and changes nothing.
create_vector_store(root_dir, index, force_recreate, how) ==
    LET root       == normpath(root_dir)
        index_path == IndexPath(root_dir, index)
        new_db     == IF force_recreate THEN None
                      ELSE get_local_vector_store(disk[index_path])
        docs       == load_files(root)
        texts      == split_documents(docs)
        built      == BuildStore(texts)
    IN  IF ~force_recreate /\ new_db # None
        THEN [outcome |-> "loaded", store |-> new_db, dir |-> disk[index_path],
              embeds |-> 0, loads |-> 0, saves |-> 0]
        ELSE IF Len(docs) = 0
        THEN [outcome |-> "NoDocuments", store |-> None, dir |-> disk[index_path],
              embeds |-> 0, loads |-> 1, saves |-> 0]
        ELSE [outcome |-> IF how = "ok" THEN "created" ELSE "PersistError",
              store   |-> IF how = "ok" THEN Some(built.db) ELSE None,
              dir     |-> save_local(built.db, disk[index_path], how),
              embeds  |-> built.embeds, loads |-> 1, saves |-> 1]

----------------------------------------------------------------------------------------------------------------------------------------
(* BaseLLM._update_vector_store *)

\* the start of _update_vector_store without the exit: a missing store is
\* taken for an empty one
update_begin_creates(index_path) ==
    LET db == load_local(disk[index_path])
    IN  [outcome |-> "running", running |-> TRUE,
         db |-> IF db = None THEN from_documents(<<>>) ELSE Get(db)]

\* lines 74-77: db = FAISS.load_local(index_path); without a store there:
\* "No existing vector store found" and exit(0), which ends the process
update_begin(index_path) ==
    LET db == load_local(disk[index_path])
    IN  IF db = None
        THEN [outcome |-> "StoreNotFound", running |-> FALSE, db |-> from_documents(<<>>)]
        ELSE [outcome |-> "running", running |-> TRUE, db |-> Get(db)]

\* the loop body without the `continue`: the entries of a file that loads to
\* no document are evicted all the same
update_one_no_skip(db, updated_file_path) ==
    LET updated_docs  == load_file(updated_file_path)
        updated_texts == split_documents(updated_docs)
    IN  [db |-> add_documents(remove_documents_where(db, updated_file_path),
                              updated_texts),
         embeds |-> IF Len(updated_docs) = 0 THEN 0 ELSE 1]

\* lines 85-97, the loop body for one updated_file_path: what db becomes and
\* the embedding calls made (add_documents embeds the new chunks)
update_one(db, updated_file_path) ==
    LET updated_docs  == load_file(updated_file_path)
        updated_texts == split_documents(updated_docs)
    IN  IF Len(updated_docs) = 0
        THEN [db |-> db, embeds |-> 0]
        ELSE [db |-> add_documents(remove_documents_where(db, updated_file_path),
                                   updated_texts),
              embeds |-> 1]

\* the end of _update_vector_store without the save: db is returned unsaved
update_save_unsaved(db, dir, how) ==
    [outcome |-> "updated", returned |-> Some(db), dir |-> dir, saves |-> 0]

\* lines 99-101: db.save_local(index_path), ending as `how`; return db
update_save(db, dir, how) ==
    [outcome  |-> IF how = "ok" THEN "updated" ELSE "PersistError",
     returned |-> IF how = "ok" THEN Some(db) ELSE None,
     dir      |-> save_local(db, dir, how),
     saves    |-> 1]

----------------------------------------------------------------------------
(* send_query *)

Min(a, b) == IF a < b THEN a ELSE b

\* the relevance orders a similarity search for k entries can come back with:
\* the positions of the Min(k, size) nearest vectors of the index, nearest
\* first (which ones are nearest depends on the question and the embedding)
Rankings(db, k) ==
    IF k < 1 THEN {<<>>}
    ELSE {r \in [1..Min(k, Len(db.index)) -> 1..Len(db.index)] :
            \A i, j \in DOMAIN r : i # j => r[i] # r[j]}

\* send_query(query) with config k: embedding_search(query, k) is
\* self.vector_store.search(query, k=k, search_type="similarity"), called with
\* whatever k is; the prompt holds the retrieved page_contents in retrieval
\* order; file_paths = [os.path.abspath(s.metadata["source"]) for s in docs].
\* The search raises when a ranked vector has no document in the docstore, and
\* for k < 1 the index either raises (`raises`) or returns no documents.
send_query(db, k, ranking, raises) ==
    LET failed == \/ k < 1 /\ raises
                  \/ \E j \in DOMAIN ranking : ranking[j] > Len(db.docstore)
        docs   == IF failed THEN <<>>
                  ELSE [j \in DOMAIN ranking |-> db.docstore[ranking[j]]]
    IN  [outcome    |-> IF failed THEN "SearchError" ELSE "answered",
         docs       |-> docs,
         prompt     |-> IF failed THEN None
                        ELSE Some([j \in DOMAIN docs |-> docs[j].page_content]),
         file_paths |-> [j \in DOMAIN docs |-> abspath(docs[j].source)],
         searches   |-> 1,
         llms       |-> IF failed THEN 0 ELSE 1]

\* the values of config k a query is made with
KValues == {0 - 1, 0, 1, 2}

\* the changedFilePaths lists a caller passes: each changed file named once
PathLists ==
    UNION {{l \in [1..n -> UpdatePaths] : \A i, j \in 1..n : i # j => l[i] # l[j]} :
              n \in 0..MaxPaths}

----------------------------------------------------------------------------
(* The state machine *)

NoUpd == [paths |-> <<>>, i |-> 0, db |-> from_documents(<<>>)]

NoLast == [op |-> "none", index_path |-> <<>>, force_recreate |-> FALSE,
           paths |-> <<>>, k |-> 0]

Init ==
    /\ files \in [FileSet -> 0..MaxContent]
    /\ disk = [ip \in IndexPaths |-> NoDir]
    /\ vector_store = None
    /\ pc = "idle"
    /\ upd = NoUpd
    /\ returned = None
    /\ outcome = "none"
    /\ embedCalls = 0
    /\ loadCalls = 0
    /\ searchCalls = 0
    /\ llmCalls = 0
    /\ persists = 0
    /\ retrieved = <<>>
    /\ promptSent = None
    /\ file_paths = <<>>
    /\ last = NoLast
    /\ ops = 0

\* the user edits, creates (from 0) or deletes (to 0) a file under the root,
\* between two operations (the program is single-threaded and synchronous)
EditFile(name, content) ==
    /\ pc = "idle"
    /\ ops < MaxOps
    /\ files[name] # content
    /\ files' = [files EXCEPT ![name] = content]
    /\ ops' = ops + 1
    /\ UNCHANGED <<disk, vector_store, pc, upd, returned, outcome, embedCalls,
                   loadCalls, searchCalls, llmCalls, persists, retrieved,
                   promptSent, file_paths, last>>

\* BaseLLM(root_dir, config): __init__ sets self.vector_store to what
\* _create_store -> _create_vector_store returns
CreateOrLoad(root_dir, index, force_recreate, how) ==
    /\ pc = "idle"
    /\ ops < MaxOps
    /\ LET r == create_vector_store(root_dir, index, force_recreate, how)
       IN  /\ vector_store' = r.store
           /\ disk' = [disk EXCEPT ![IndexPath(root_dir, index)] = r.dir]
           /\ outcome' = r.outcome
           /\ embedCalls' = r.embeds
           /\ loadCalls' = r.loads
           /\ persists' = r.saves
    /\ last' = [NoLast EXCEPT !.op = "createOrLoad",
                              !.index_path = IndexPath(root_dir, index),
                              !.force_recreate = force_recreate]
    /\ ops' = ops + 1
    /\ searchCalls' = 0
    /\ llmCalls' = 0
    /\ returned' = None
    /\ retrieved' = <<>>
    /\ promptSent' = None
    /\ file_paths' = <<>>
    /\ UNCHANGED <<files, pc, upd>>

\* self._update_vector_store(updated_file_paths, embeddings, index, root_dir)
\* on the live instance, up to the loop: the store is loaded, or the process
\* exits
UpdateBegin(updated_file_paths, index, root_dir) ==
    /\ pc = "idle"
    /\ ops < MaxOps
    /\ vector_store # None
    /\ LET r == update_begin(IndexPath(root_dir, index))
       IN  /\ outcome' = r.outcome
           /\ pc' = IF r.running THEN "update" ELSE "idle"
           /\ upd' = IF r.running
                     THEN [paths |-> updated_file_paths, i |-> 1, db |-> r.db]
                     ELSE NoUpd
           /\ vector_store' = IF r.running THEN vector_store ELSE None
    /\ last' = [NoLast EXCEPT !.op = "update",
                              !.index_path = IndexPath(root_dir, index),
                              !.paths = updated_file_paths]
    /\ ops' = ops + 1
    /\ embedCalls' = 0
    /\ loadCalls' = 0
    /\ searchCalls' = 0
    /\ llmCalls' = 0
    /\ persists' = 0
    /\ returned' = None
    /\ retrieved' = <<>>
    /\ promptSent' = None
    /\ file_paths' = <<>>
    /\ UNCHANGED <<files, disk>>

\* one turn of the loop over updated_file_paths
UpdateStep ==
    /\ pc = "update"
    /\ upd.i <= Len(upd.paths)
    /\ LET r == update_one(upd.db, upd.paths[upd.i])
       IN  /\ upd' = [upd EXCEPT !.db = r.db, !.i = @ + 1]
           /\ embedCalls' = embedCalls + r.embeds
    /\ loadCalls' = loadCalls + 1
    /\ UNCHANGED <<files, disk, vector_store, pc, returned, outcome, searchCalls,
                   llmCalls, persists, retrieved, promptSent, file_paths, last, ops>>

\* after the loop: save and return; a failed save raises and ends the process
UpdateSave(how) ==
    /\ pc = "update"
    /\ upd.i > Len(upd.paths)
    /\ LET r == update_save(upd.db, disk[last.index_path], how)
       IN  /\ disk' = [disk EXCEPT ![last.index_path] = r.dir]
           /\ outcome' = r.outcome
           /\ returned' = r.returned
           /\ persists' = persists + r.saves
           /\ vector_store' = IF r.returned = None THEN None ELSE vector_store
    /\ pc' = "idle"
    /\ upd' = NoUpd
    /\ UNCHANGED <<files, embedCalls, loadCalls, searchCalls, llmCalls, retrieved,
                   promptSent, file_paths, last, ops>>

\* self.send_query(query) on the live instance with config k
Answer(k, raises) ==
    /\ pc = "idle"
    /\ ops < MaxOps
    /\ vector_store # None
    /\ \E ranking \in Rankings(Get(vector_store), k) :
       LET r == send_query(Get(vector_store), k, ranking, raises)
       IN  /\ outcome' = r.outcome
           /\ retrieved' = r.docs
           /\ promptSent' = r.prompt
           /\ file_paths' = r.file_paths
           /\ searchCalls' = r.searches
           /\ llmCalls' = r.llms
    /\ last' = [NoLast EXCEPT !.op = "answer", !.k = k]
    /\ ops' = ops + 1
    /\ embedCalls' = 0
    /\ loadCalls' = 0
    /\ persists' = 0
    /\ returned' = None
    /\ UNCHANGED <<files, disk, vector_store, pc, upd>>

Next ==
    \/ \E name \in FileSet, content \in 0..MaxContent : EditFile(name, content)
    \/ \E root_dir \in RootDirs, index \in ModelTypes, force_recreate \in BOOLEAN,
          how \in SaveEnds : CreateOrLoad(root_dir, index, force_recreate, how)
    \/ \E updated_file_paths \in PathLists, index \in ModelTypes, root_dir \in RootDirs :
          UpdateBegin(updated_file_paths, index, root_dir)
    \/ UpdateStep
    \/ \E how \in SaveEnds : UpdateSave(how)
    \/ \E k \in KValues :
          \E raises \in (IF k < 1 THEN BOOLEAN ELSE {FALSE}) : Answer(k, raises)

Spec == Init /\ [][Next]_vars

----------------------------------------------------------------------------
(* Properties *)

\* a step that starts operation `op` (a file edit changes files and starts none)
StepOf(op) == ops' = ops + 1 /\ files' = files /\ last'.op = op

\* the entries of a docstore that come from `path`, and the others, in order
SourceEntries(docstore, path) == SelectSeq(docstore, LAMBDA e : e.source = path)
OtherEntries(docstore, path) == SelectSeq(docstore, LAMBDA e : e.source # path)

\* a store is persisted at the index directory
StoreAt(dir) == load_local(dir) # None

PathA == SourceOf(Root, "a.py")
PathB == SourceOf(Root, "b.py")

\* C3: in _update_vector_store a path that reloads to zero documents leaves
\* the store as it is (its earlier entries stay), the loop goes on to the next
\* path, a path that does load has its old entries evicted and its new chunks
\* added, and after the last path the store is saved
C3_UpdateSkipsUnloadablePath ==
    [][pc = "update" =>
        IF upd.i <= Len(upd.paths)
        THEN LET p == upd.paths[upd.i]
             IN  /\ pc' = "update"
                 /\ upd'.i = upd.i + 1
                 /\ upd'.paths = upd.paths
                 /\ IF load_file(p) = <<>>
                    THEN upd'.db = upd.db
                    ELSE /\ SourceEntries(upd'.db.docstore, p) = split_documents(load_file(p))
                         /\ OtherEntries(upd'.db.docstore, p) = OtherEntries(upd.db.docstore, p)
        ELSE /\ pc' = "idle"
             /\ persists' = persists + 1
             /\ outcome' = "updated" => disk'[last.index_path] = DirOf(upd.db)
    ]_vars

\* C3's case: an update over two paths has ended, the file of one is gone and
\* its earlier entries are still in the saved store, the other was re-embedded
C3_Witness ==
    /\ last.op = "update"
    /\ outcome = "updated"
    /\ \E i, j \in DOMAIN last.paths :
         /\ files[NameOf(last.paths[i])] = 0
         /\ SourceEntries(Get(returned).docstore, last.paths[i]) # <<>>
         /\ files[NameOf(last.paths[j])] # 0
         /\ SourceEntries(Get(returned).docstore, last.paths[j])
              = split_documents(load_file(last.paths[j]))
    /\ embedCalls = 1
    /\ disk[last.index_path] = DirOf(Get(returned))

\* C4: a _create_vector_store call on the build path (force_recreate, or no
\* store at index_path) that loads zero documents ends "No documents found",
\* calls the embedding provider not once and writes nothing: every index
\* directory is as it was
C4_NoDocumentsCreatesNothing ==
    [][(/\ StepOf("createOrLoad")
        /\ last'.force_recreate \/ ~StoreAt(disk[last'.index_path])
        /\ load_files(Root) = <<>>)
       => /\ outcome' = "NoDocuments"
          /\ embedCalls' = 0
          /\ persists' = 0
          /\ disk' = disk
          /\ vector_store' = None
    ]_vars

\* C4's case: a forced recreate over a persisted index found no documents
C4_Witness ==
    /\ last.op = "createOrLoad"
    /\ last.force_recreate
    /\ outcome = "NoDocuments"
    /\ StoreAt(disk[last.index_path])

\* C6: _update_vector_store called with no store at index_path ends "No
\* existing vector store found": the loop is not entered, no file is loaded,
\* nothing is embedded, nothing is saved and every index directory is as it was
C6_UpdateNeverCreates ==
    [][(StepOf("update") /\ ~StoreAt(disk[last'.index_path]))
       => /\ outcome' = "StoreNotFound"
          /\ pc' = "idle"
          /\ loadCalls' = 0
          /\ embedCalls' = 0
          /\ persists' = 0
          /\ returned' = None
          /\ disk' = disk
    ]_vars

\* C6's case: an update naming files ended without a store at its index path
C6_Witness ==
    /\ last.op = "update"
    /\ last.paths # <<>>
    /\ outcome = "StoreNotFound"
    /\ ~StoreAt(disk[last.index_path])

\* C9: _update_vector_store saves once per call and only after the last path:
\* no turn of the loop writes the index directory, the loop is left only past
\* the last path and by the one save, and when the call returns the directory
\* at index_path holds the store it returns
C9_UpdatePersistsOnceAtEnd ==
    [][/\ (pc = "update" /\ pc' = "update")
            => /\ disk' = disk
               /\ persists = 0
               /\ persists' = 0
       /\ (pc = "update" /\ pc' # "update")
            => /\ upd.i > Len(upd.paths)
               /\ persists' = 1
       /\ (outcome' = "updated" /\ files' = files)
            => /\ returned' = Some(upd.db)
               /\ disk'[last'.index_path] = DirOf(Get(returned'))
               /\ persists' = 1
    ]_vars

\* C9's case: an update over two loadable paths returned, having saved once
C9_Witness ==
    /\ last.op = "update"
    /\ outcome = "updated"
    /\ Len(last.paths) = 2
    /\ embedCalls = 2
    /\ persists = 1
    /\ disk[last.index_path] = DirOf(Get(returned))

\* C1: of two createOrLoad calls in a row on one index path without
\* force_recreate, the first building the store, the embedding provider is
\* called once in all: the second call returns the persisted store and calls
\* it not at all; and no createOrLoad without force_recreate calls it while a
\* store is persisted at the index path
C1_EmbedsOnceOverTwoCalls ==
    [][/\ (/\ last.op = "createOrLoad"
           /\ ~last.force_recreate
           /\ outcome = "created"
           /\ StepOf("createOrLoad")
           /\ last'.index_path = last.index_path
           /\ ~last'.force_recreate)
            => /\ outcome' = "loaded"
               /\ vector_store' = load_local(disk[last.index_path])
               /\ embedCalls' = 0
               /\ embedCalls + embedCalls' = 1
       /\ (/\ StepOf("createOrLoad")
           /\ ~last'.force_recreate
           /\ StoreAt(disk[last'.index_path]))
            => embedCalls' = 0
    ]_vars

\* the store createOrLoad builds over a.py of content ca and b.py of content cb
BuiltOver(ca, cb) ==
    BuildStore(split_documents(<<[source |-> PathA, content |-> ca],
                                 [source |-> PathB, content |-> cb]>>)).db

\* C2: an update with [a.py], a.py edited since createOrLoad built the store
\* over a.py and b.py, returns a store whose entries for a.py are the chunks
\* of the new a.py and whose other entries are the chunks of b.py, each once
C2_UpdateLeavesNewAAndB ==
    [][(/\ pc = "update"
        /\ outcome' = "updated"
        /\ last.paths = <<PathA>>
        /\ files["a.py"] # 0
        /\ files["b.py"] # 0
        /\ \E ca \in 1..MaxContent :
             /\ ca # files["a.py"]
             /\ disk[last.index_path] = DirOf(BuiltOver(ca, files["b.py"])))
       => /\ SourceEntries(Get(returned').docstore, PathA)
               = split_documents(load_file(PathA))
          /\ OtherEntries(Get(returned').docstore, PathA)
               = split_documents(load_file(PathB))
    ]_vars

\* the store an operation saving at this step saves
SavedStore ==
    IF pc = "update" THEN upd.db
    ELSE BuildStore(split_documents(load_files(Root))).db

\* C5: after a save that failed, in create or in update, the index directory
\* holds the complete new store or exactly what it held before
C5_FailedPersistIsAtomic ==
    [][(outcome' = "PersistError" /\ files' = files)
       => \A ip \in IndexPaths :
            \/ disk'[ip] = disk[ip]
            \/ disk'[ip] = DirOf(SavedStore)
    ]_vars

\* the first occurrences of the elements of a sequence, in order
RECURSIVE Dedup(_)
Dedup(seq) ==
    IF seq = <<>> THEN <<>>
    ELSE <<Head(seq)>> \o SelectSeq(Dedup(Tail(seq)), LAMBDA x : x # Head(seq))

\* C7: the provenance send_query reports is the absolute source paths of the
\* retrieved chunks, each path once, at the place of its first chunk
C7_ProvenanceDeduplicated ==
    (last.op = "answer" /\ outcome = "answered")
        => file_paths = Dedup([j \in DOMAIN retrieved |-> abspath(retrieved[j].source)])

\* C8: a query with k < 1 is rejected as an invalid parameter: no similarity
\* search is performed and no prompt is sent
C8_RejectsKBelowOne ==
    (last.op = "answer" /\ last.k < 1)
        => /\ outcome = "InvalidParameter"
           /\ searchCalls = 0
           /\ llmCalls = 0

\* C10: the store createOrLoad builds, returns and saves holds the chunks of
\* the loaded documents, each once, and they went to the embedding provider
\* in one call
C10_BuiltStoreHoldsEachChunkOnce ==
    [][(StepOf("createOrLoad") /\ outcome' = "created")
       => LET texts == split_documents(load_files(Root))
          IN  /\ Get(vector_store').docstore = texts
              /\ Get(vector_store').index = texts
              /\ disk'[last'.index_path] = DirOf(Get(vector_store'))
              /\ embedCalls' = 1
    ]_vars

====
